---- MODULE Spec2Model ----
(***************************************************************************)
(* Model of pollon's document store (src/main.rs): the path sanitizer,     *)
(* the node identity scheme and the five request handlers, running as      *)
(* concurrent tasks over one directory tree.                               *)
(*                                                                         *)
(* Strings are sequences of one-character strings, so that parsing,        *)
(* formatting, suffix handling and sorting are computed, not assumed.      *)
(* Paths are strings too (PathBuf is a byte string), parsed into           *)
(* components the way std::path does on Unix.                              *)
(***************************************************************************)
EXTENDS Integers, Sequences, FiniteSets, TLC

\* ------------------------------------------------------------------ bounds
\* longest untrusted string the specifications enumerate
MaxLen == 4
\* longest explicit node list of a document request
MaxList == 3
\* number of concurrent request tasks
NTasks == 2

\* ------------------------------------------------------------ characters
Digits == <<"0", "1", "2", "3", "4", "5", "6", "7", "8", "9">>

DigitChars == {Digits[i] : i \in 1..10}

DigitVal(c) == (CHOOSE i \in 1..10 : Digits[i] = c) - 1

\* byte value of the characters the model uses (String ordering is bytewise)
Ascii(c) ==
    CASE c = "+" -> 43
      [] c = "," -> 44
      [] c = "." -> 46
      [] c = "/" -> 47
      [] c \in DigitChars -> 48 + DigitVal(c)
      [] c = "A" -> 65
      [] c = "B" -> 66
      [] c = "C" -> 67
      [] c = "a" -> 97
      [] c = "b" -> 98
      [] c = "d" -> 100
      [] c = "e" -> 101
      [] c = "h" -> 104
      [] c = "l" -> 108
      [] c = "m" -> 109
      [] c = "t" -> 116
      [] c = "x" -> 120
      [] OTHER -> 255

\* all strings over alphabet A of length at most n
StrUpTo(A, n) == UNION {[1..k -> A] : k \in 0..n}

HtmlSuffix == <<".", "h", "t", "m", "l">>

\* ------------------------------------------------------------ std::path
\* s.split(c): the pieces between occurrences of c (empty pieces kept)
RECURSIVE Split(_, _)
Split(s, c) ==
    IF s = <<>> THEN << <<>> >>
    ELSE LET rest == Split(Tail(s), c)
         IN  IF Head(s) = c THEN << <<>> >> \o rest
             ELSE << <<Head(s)>> \o Head(rest) >> \o Tail(rest)

HasRoot(s) == s # <<>> /\ s[1] = "/"

\* one component of a parsed path
Comp(kind, name) == [kind |-> kind, name |-> name]

\* Path::components() on Unix: a leading "/" is RootDir; empty pieces
\* (repeated or trailing separators) vanish; "." vanishes except as the
\* very first piece of a relative path (CurDir); ".." is ParentDir.
RECURSIVE CompsOf(_, _, _)
CompsOf(segs, i, rooted) ==
    IF i > Len(segs) THEN <<>>
    ELSE LET g == segs[i]
             rest == CompsOf(segs, i + 1, rooted)
         IN  IF g = <<>> THEN rest
             ELSE IF g = <<".">>
                  THEN IF i = 1 /\ ~rooted
                       THEN <<Comp("CurDir", g)>> \o rest
                       ELSE rest
             ELSE IF g = <<".", ".">> THEN <<Comp("ParentDir", g)>> \o rest
             ELSE <<Comp("Normal", g)>> \o rest

Components(s) ==
    (IF HasRoot(s) THEN <<Comp("RootDir", <<"/">>)>> ELSE <<>>)
        \o CompsOf(Split(s, "/"), 1, HasRoot(s))

\* PathBuf::push on Unix: an absolute argument replaces the buffer,
\* otherwise a separator is added when needed and the argument appended.
Push(buf, raw) ==
    IF HasRoot(raw) THEN raw
    ELSE IF buf # <<>> /\ buf[Len(buf)] # "/" THEN buf \o <<"/">> \o raw
    ELSE buf \o raw

\* ------------------------------------------------------------ sanitizer
Ok(v) == [ok |-> TRUE, val |-> v, err |-> "none"]

Err(kind) == [ok |-> FALSE, val |-> <<>>, err |-> kind]

\* A sanitizer that checks the first component but appends the whole string.
path_append_whole(path, new_component) ==
    LET cs == Components(new_component)
    IN  IF cs = <<>> THEN [ok |-> FALSE, path |-> path, err |-> "UnknownError"]
        ELSE IF cs[1].kind = "Normal"
             THEN [ok |-> TRUE, path |-> Push(path, new_component), err |-> "none"]
             ELSE [ok |-> FALSE, path |-> path, err |-> "InvalidComponent"]

\* A sanitizer that appends the first component whatever its kind.
path_append_unchecked(path, new_component) ==
    LET cs == Components(new_component)
    IN  IF cs = <<>> THEN [ok |-> FALSE, path |-> path, err |-> "UnknownError"]
        ELSE [ok |-> TRUE, path |-> Push(path, cs[1].name), err |-> "none"]

\* path_append_normal(path, new_component): looks at the first component
\* only; Normal(raw) pushes raw, anything else is an ApiError::Simple.
\* The result carries the (possibly extended) path and the error text kind.
path_append_normal(path, new_component) ==
    LET cs == Components(new_component)
    IN  IF cs = <<>> THEN [ok |-> FALSE, path |-> path, err |-> "UnknownError"]
        ELSE IF cs[1].kind = "Normal"
             THEN [ok |-> TRUE, path |-> Push(path, cs[1].name), err |-> "none"]
             ELSE [ok |-> FALSE, path |-> path, err |-> "InvalidComponent"]

\* AppState.library: the canonicalized (absolute) library root
library == <<"/", "l">>

\* ------------------------------------------------------------ u32
\* A u32 is kept as two 16-bit limbs [hi, lo] so that the arithmetic of
\* parse::<u32>, value + 1 and format!("{}") is done at its real width.
Limb == 65536

U32(hi, lo) == [hi |-> hi, lo |-> lo]

U32Zero == U32(0, 0)

U32Max == U32(Limb - 1, Limb - 1)

U32Geq(a, b) == a.hi > b.hi \/ (a.hi = b.hi /\ a.lo >= b.lo)

\* v * 10 + d, or overflow
U32MulAdd(v, d) ==
    LET lo == v.lo * 10 + d
        hi == v.hi * 10 + (lo \div Limb)
    IN  IF hi >= Limb THEN [ok |-> FALSE, val |-> U32Zero]
        ELSE [ok |-> TRUE, val |-> U32(hi, lo % Limb)]

RECURSIVE ParseDigits(_, _)
ParseDigits(s, acc) ==
    IF s = <<>> THEN [ok |-> TRUE, val |-> acc]
    ELSE IF Head(s) \notin DigitChars THEN [ok |-> FALSE, val |-> U32Zero]
    ELSE LET n == U32MulAdd(acc, DigitVal(Head(s)))
         IN  IF n.ok THEN ParseDigits(Tail(s), n.val) ELSE n

\* str::parse::<u32>: an optional leading "+", then one or more decimal
\* digits whose value fits in 32 bits; anything else is an error.
ParseU32(s) ==
    LET d == IF s # <<>> /\ s[1] = "+" THEN Tail(s) ELSE s
    IN  IF d = <<>> THEN [ok |-> FALSE, val |-> U32Zero]
        ELSE ParseDigits(d, U32Zero)

\* format!("{}", v) for a u32: its decimal digits, no leading zeros
RECURSIVE FormatU32(_)
FormatU32(v) ==
    LET qh == v.hi \div 10
        mid == (v.hi % 10) * Limb + v.lo
        q == U32(qh, mid \div 10)
        last == <<Digits[(mid % 10) + 1]>>
    IN  IF q = U32Zero THEN last ELSE FormatU32(q) \o last

\* value + 1 on a u32: overflow panics in a build with overflow checks
\* (debug) and wraps to 0 without them (release).
U32Succ(v, checks) ==
    IF v = U32Max
    THEN IF checks THEN [panic |-> TRUE, val |-> U32Zero]
         ELSE [panic |-> FALSE, val |-> U32Zero]
    ELSE IF v.lo = Limb - 1 THEN [panic |-> FALSE, val |-> U32(v.hi + 1, 0)]
    ELSE [panic |-> FALSE, val |-> U32(v.hi, v.lo + 1)]

\* ------------------------------------------------------------ strings
EndsWith(s, suf) ==
    Len(s) >= Len(suf) /\ SubSeq(s, Len(s) - Len(suf) + 1, Len(s)) = suf

\* a byte that cannot occur in UTF-8 text
InvalidByte == "xFF"

\* std::str::from_utf8 / String::from_utf8 succeed
Utf8Valid(bytes) == \A i \in DOMAIN bytes : bytes[i] # InvalidByte

\* str::strip_suffix(".html").unwrap_or(path)
StripHtml(s) ==
    IF EndsWith(s, HtmlSuffix) THEN SubSeq(s, 1, Len(s) - Len(HtmlSuffix)) ELSE s

\* format!("{}.html", name)
WithHtml(name) == name \o HtmlSuffix

\* String's Ord: bytewise lexicographic, a proper prefix sorts first
RECURSIVE StrLess(_, _)
StrLess(a, b) ==
    IF b = <<>> THEN FALSE
    ELSE IF a = <<>> THEN TRUE
    ELSE IF Ascii(Head(a)) # Ascii(Head(b)) THEN Ascii(Head(a)) < Ascii(Head(b))
    ELSE StrLess(Tail(a), Tail(b))

RECURSIVE Insert(_, _)
Insert(sorted, x) ==
    IF sorted = <<>> THEN <<x>>
    ELSE IF StrLess(x, Head(sorted)) THEN <<x>> \o sorted
    ELSE <<Head(sorted)>> \o Insert(Tail(sorted), x)

\* Vec<String>::sort
RECURSIVE SortPaths(_)
SortPaths(paths) ==
    IF paths = <<>> THEN <<>>
    ELSE Insert(SortPaths(SubSeq(paths, 1, Len(paths) - 1)), paths[Len(paths)])

\* the orders in which a directory may list the entries S
Orderings(S) ==
    {f \in [1..Cardinality(S) -> S] : \A i, j \in DOMAIN f : i # j => f[i] # f[j]}

\* ------------------------------------------------------------ state
VARIABLES
    dirs,     \* document name -> (entry name -> [kind, ino]): the directories under the library
    data,     \* inode number -> file content (an unlinked inode keeps its content)
    meta,     \* inode number -> who created the file and who wrote to it, in order
    req,      \* task -> the request it serves
    pc,       \* task -> position in its handler: "start", "read", "create", "write", "done"
    loc,      \* task -> the handler's local variables
    res,      \* task -> the handler's result
    touched,  \* every filesystem call made so far: [task, call, path]
    checks,   \* TRUE when the build has overflow checks (debug), FALSE when not (release)
    san       \* the sanitizer called on its own: [base, input, out]

vars == <<dirs, data, meta, req, pc, loc, res, touched, checks, san>>

Tasks == 1..NTasks

\* ------------------------------------------------------------ filesystem
LibComps == Components(library)

\* Where a path string leads: a document directory (one normal component
\* below the library), an entry of one (two), or somewhere else.
Resolve(p) ==
    LET cs == Components(p)
        n == Len(LibComps)
    IN  IF /\ Len(cs) \in {n + 1, n + 2}
           /\ SubSeq(cs, 1, n) = LibComps
           /\ \A i \in (n + 1)..Len(cs) : cs[i].kind = "Normal"
        THEN IF Len(cs) = n + 1
             THEN [lvl |-> "doc", doc |-> cs[n + 1].name, name |-> <<>>]
             ELSE [lvl |-> "entry", doc |-> cs[n + 1].name, name |-> cs[n + 2].name]
        ELSE [lvl |-> "other", doc |-> <<>>, name |-> <<>>]

IsEntry(ds, r) == r.lvl = "entry" /\ r.doc \in DOMAIN ds /\ r.name \in DOMAIN ds[r.doc]

\* tokio::fs::read_dir + next_entry: the names in the directory
FsReadDir(ds, p) ==
    LET r == Resolve(p)
    IN  IF r.lvl = "doc" /\ r.doc \in DOMAIN ds
        THEN [ok |-> TRUE, names |-> DOMAIN ds[r.doc], err |-> "none"]
        ELSE IF IsEntry(ds, r) /\ ds[r.doc][r.name].kind = "file"
        THEN [ok |-> FALSE, names |-> {}, err |-> "NotADirectory"]
        ELSE [ok |-> FALSE, names |-> {}, err |-> "NotFound"]

\* tokio::fs::read
FsRead(ds, dt, p) ==
    LET r == Resolve(p)
    IN  IF IsEntry(ds, r)
        THEN IF ds[r.doc][r.name].kind = "file"
             THEN Ok(dt[ds[r.doc][r.name].ino])
             ELSE Err("IsADirectory")
        ELSE IF r.lvl = "doc" /\ r.doc \in DOMAIN ds THEN Err("IsADirectory")
        ELSE Err("NotFound")

\* a directory with the entry name added or replaced
WithEntry(dir, name, ent) ==
    [x \in DOMAIN dir \cup {name} |-> IF x = name THEN ent ELSE dir[x]]

WithoutEntry(dir, name) == [x \in DOMAIN dir \ {name} |-> dir[x]]

FsResult(ok, err, ds, dt, ino) ==
    [ok |-> ok, err |-> err, dirs |-> ds, data |-> dt, ino |-> ino]

\* A write that makes the parent directory when it is missing.
FsWriteMkdir(ds, dt, p, body) ==
    LET r == Resolve(p)
    IN  IF IsEntry(ds, r)
        THEN IF ds[r.doc][r.name].kind = "file"
             THEN FsResult(TRUE, "none", ds,
                           [dt EXCEPT ![ds[r.doc][r.name].ino] = body],
                           ds[r.doc][r.name].ino)
             ELSE FsResult(FALSE, "IsADirectory", ds, dt, 0)
        ELSE IF r.lvl = "entry"
        THEN FsResult(TRUE, "none",
                      [x \in DOMAIN ds \cup {r.doc} |->
                          IF x # r.doc THEN ds[x]
                          ELSE WithEntry(IF x \in DOMAIN ds THEN ds[x] ELSE <<>>,
                                         r.name,
                                         [kind |-> "file", ino |-> Len(dt) + 1])],
                      Append(dt, body), Len(dt) + 1)
        ELSE IF r.lvl = "doc" /\ r.doc \in DOMAIN ds
        THEN FsResult(FALSE, "IsADirectory", ds, dt, 0)
        ELSE FsResult(FALSE, "NotFound", ds, dt, 0)

\* A write that refuses to create a missing file.
FsWriteExisting(ds, dt, p, body) ==
    LET r == Resolve(p)
    IN  IF IsEntry(ds, r)
        THEN IF ds[r.doc][r.name].kind = "file"
             THEN FsResult(TRUE, "none", ds,
                           [dt EXCEPT ![ds[r.doc][r.name].ino] = body],
                           ds[r.doc][r.name].ino)
             ELSE FsResult(FALSE, "IsADirectory", ds, dt, 0)
        ELSE IF r.lvl = "doc" /\ r.doc \in DOMAIN ds
        THEN FsResult(FALSE, "IsADirectory", ds, dt, 0)
        ELSE FsResult(FALSE, "NotFound", ds, dt, 0)

\* A write that opens an existing file without truncating it.
FsWriteNoTruncate(ds, dt, p, body) ==
    LET r == Resolve(p)
    IN  IF IsEntry(ds, r)
        THEN IF ds[r.doc][r.name].kind = "file"
             THEN LET ino == ds[r.doc][r.name].ino
                      old == dt[ino]
                  IN  FsResult(TRUE, "none", ds,
                               [dt EXCEPT ![ino] =
                                   body \o SubSeq(old, Len(body) + 1, Len(old))],
                               ino)
             ELSE FsResult(FALSE, "IsADirectory", ds, dt, 0)
        ELSE IF r.lvl = "entry" /\ r.doc \in DOMAIN ds
        THEN FsResult(TRUE, "none",
                      [ds EXCEPT ![r.doc] =
                          WithEntry(@, r.name, [kind |-> "file", ino |-> Len(dt) + 1])],
                      Append(dt, body), Len(dt) + 1)
        ELSE IF r.lvl = "doc" /\ r.doc \in DOMAIN ds
        THEN FsResult(FALSE, "IsADirectory", ds, dt, 0)
        ELSE FsResult(FALSE, "NotFound", ds, dt, 0)

\* tokio::fs::write: create the file or truncate it, then write the content
FsWrite(ds, dt, p, body) ==
    LET r == Resolve(p)
    IN  IF IsEntry(ds, r)
        THEN IF ds[r.doc][r.name].kind = "file"
             THEN FsResult(TRUE, "none", ds,
                           [dt EXCEPT ![ds[r.doc][r.name].ino] = body],
                           ds[r.doc][r.name].ino)
             ELSE FsResult(FALSE, "IsADirectory", ds, dt, 0)
        ELSE IF r.lvl = "entry" /\ r.doc \in DOMAIN ds
        THEN FsResult(TRUE, "none",
                      [ds EXCEPT ![r.doc] =
                          WithEntry(@, r.name, [kind |-> "file", ino |-> Len(dt) + 1])],
                      Append(dt, body), Len(dt) + 1)
        ELSE IF r.lvl = "doc" /\ r.doc \in DOMAIN ds
        THEN FsResult(FALSE, "IsADirectory", ds, dt, 0)
        ELSE FsResult(FALSE, "NotFound", ds, dt, 0)

\* tokio::fs::remove_file
FsRemove(ds, dt, p) ==
    LET r == Resolve(p)
    IN  IF IsEntry(ds, r)
        THEN IF ds[r.doc][r.name].kind = "file"
             THEN FsResult(TRUE, "none",
                           [ds EXCEPT ![r.doc] = WithoutEntry(@, r.name)], dt, 0)
             ELSE FsResult(FALSE, "IsADirectory", ds, dt, 0)
        ELSE IF r.lvl = "doc" /\ r.doc \in DOMAIN ds
        THEN FsResult(FALSE, "IsADirectory", ds, dt, 0)
        ELSE FsResult(FALSE, "NotFound", ds, dt, 0)

\* An open with create(true) and truncate(true) in place of create_new(true).
FsCreateTruncate(ds, dt, p) == FsWrite(ds, dt, p, <<>>)

\* OpenOptions::new().write(true).create_new(true).open: fails when the name
\* exists (whatever it names), otherwise makes an empty file and returns it.
FsCreateNew(ds, dt, p) ==
    LET r == Resolve(p)
    IN  IF IsEntry(ds, r) \/ (r.lvl = "doc" /\ r.doc \in DOMAIN ds)
        THEN FsResult(FALSE, "AlreadyExists", ds, dt, 0)
        ELSE IF r.lvl = "entry" /\ r.doc \in DOMAIN ds
        THEN FsResult(TRUE, "none",
                      [ds EXCEPT ![r.doc] =
                          WithEntry(@, r.name, [kind |-> "file", ino |-> Len(dt) + 1])],
                      Append(dt, <<>>), Len(dt) + 1)
        ELSE FsResult(FALSE, "NotFound", ds, dt, 0)

\* File::write_all + flush on a handle opened at offset 0 without append:
\* the bytes replace the start of whatever the file holds by then.
FdWrite(dt, ino, body) ==
    [dt EXCEPT ![ino] =
        IF Len(@) > Len(body) THEN body \o SubSeq(@, Len(body) + 1, Len(@)) ELSE body]

\* ------------------------------------------------------------ results
NoResult == [kind |-> "none", status |-> 0, out |-> <<>>, msg |-> "none"]

\* Ok(..) of a handler: Html(text) answers 200, StatusCode::OK is 200 and
\* StatusCode::RESET_CONTENT is 205
Success(status, out) == [kind |-> "Ok", status |-> status, out |-> out, msg |-> "none"]

\* An error response that picks its status by cause.
ApiErrorByCause(kind, msg) ==
    [kind |-> kind, status |-> IF kind = "Simple" THEN 400 ELSE 500,
     out |-> <<>>, msg |-> msg]

\* impl IntoResponse for ApiError: every variant answers 500 with a message
ApiError(kind, msg) == [kind |-> kind, status |-> 500, out |-> <<>>, msg |-> msg]

\* a panic unwinds the task: the request gets no response
Panicked == [kind |-> "Panic", status |-> 0, out |-> <<>>, msg |-> "overflow"]

NoLocals ==
    [paths |-> <<>>, rendered |-> <<>>, new_canidate |-> U32Zero,
     doc_path |-> <<>>, fd |-> 0]

Request(op, doc, node, given, nodes, body) ==
    [op |-> op, doc |-> doc, node |-> node, given |-> given, nodes |-> nodes,
     body |-> body]

NoRequest == Request("none", <<>>, <<>>, FALSE, <<>>, <<>>)

Call(t, call, path) == [task |-> t, call |-> call, path |-> path]

\* bookkeeping for a file made by task t (0: present at startup)
Created(t, writers) == [creator |-> t, writers |-> writers]

\* the handler of task t returns r
Finish(t, r) ==
    /\ pc' = [pc EXCEPT ![t] = "done"]
    /\ res' = [res EXCEPT ![t] = r]

\* ------------------------------------------------------------ handlers
\* The library path extended by the document name and by "<node>.html",
\* each through path_append_normal, as node_get, node_replace and
\* node_delete build it.
NodePath(doc_raw, node_raw) ==
    LET d == path_append_normal(library, doc_raw)
    IN  IF ~d.ok THEN d ELSE path_append_normal(d.path, WithHtml(node_raw))

\* A nodes branch that sorts its paths the way the listing branch does.
RECURSIVE NodeListPathsSorted(_, _)
NodeListPathsSorted(doc_path, names) ==
    IF names = <<>> THEN [ok |-> TRUE, paths |-> <<>>, err |-> "none"]
    ELSE LET r == path_append_normal(doc_path, WithHtml(Head(names)))
         IN  IF ~r.ok THEN [ok |-> FALSE, paths |-> <<>>, err |-> r.err]
             ELSE LET rest == NodeListPathsSorted(doc_path, Tail(names))
                  IN  IF ~rest.ok THEN rest
                      ELSE [ok |-> TRUE,
                            paths |-> SortPaths(<<r.path>> \o rest.paths),
                            err |-> "none"]

\* document(), the nodes branch: one path per piece of the comma-separated
\* list, each sanitized; the first rejection ends the handler.
RECURSIVE NodeListPaths(_, _)
NodeListPaths(doc_path, names) ==
    IF names = <<>> THEN [ok |-> TRUE, paths |-> <<>>, err |-> "none"]
    ELSE LET r == path_append_normal(doc_path, WithHtml(Head(names)))
         IN  IF ~r.ok THEN [ok |-> FALSE, paths |-> <<>>, err |-> r.err]
             ELSE LET rest == NodeListPaths(doc_path, Tail(names))
                  IN  IF ~rest.ok THEN rest
                      ELSE [ok |-> TRUE, paths |-> <<r.path>> \o rest.paths,
                            err |-> "none"]

\* A listing branch that forgets to sort.
ListedPathsUnsorted(doc_path, order) ==
    [i \in DOMAIN order |-> Push(doc_path, order[i])]

\* document(), the listing branch: the entries' paths in listing order, sorted
ListedPaths(doc_path, order) ==
    SortPaths([i \in DOMAIN order |-> Push(doc_path, order[i])])

\* GET /:document up to its first file read
Document(t) ==
    /\ pc[t] = "start" /\ req[t].op = "document"
    /\ LET d == path_append_normal(library, req[t].doc)
       IN  IF ~d.ok
           THEN /\ Finish(t, ApiError("Simple", d.err))
                /\ UNCHANGED <<loc, touched>>
           ELSE IF req[t].given
           THEN LET l == NodeListPaths(d.path, Split(req[t].nodes, ","))
                IN  IF ~l.ok
                    THEN /\ Finish(t, ApiError("Simple", l.err))
                         /\ UNCHANGED <<loc, touched>>
                    ELSE /\ loc' = [loc EXCEPT ![t].paths = l.paths]
                         /\ pc' = [pc EXCEPT ![t] = "read"]
                         /\ UNCHANGED <<res, touched>>
           ELSE LET l == FsReadDir(dirs, d.path)
                IN  /\ touched' = touched \cup {Call(t, "read_dir", d.path)}
                    /\ IF ~l.ok
                       THEN Finish(t, ApiError("Io", l.err)) /\ UNCHANGED loc
                       ELSE \E order \in Orderings(l.names) :
                              IF order = <<>>
                              THEN Finish(t, Success(200, <<>>)) /\ UNCHANGED loc
                              ELSE /\ loc' = [loc EXCEPT ![t].paths =
                                                 ListedPaths(d.path, order)]
                                   /\ pc' = [pc EXCEPT ![t] = "read"]
                                   /\ UNCHANGED res
    /\ UNCHANGED <<dirs, data, meta, req, checks, san>>

\* document(): one turn of the read loop, and the return after the last
DocumentRead(t) ==
    /\ pc[t] = "read"
    /\ LET path == Head(loc[t].paths)
           file == FsRead(dirs, data, path)
           rendered == loc[t].rendered \o file.val
       IN  /\ touched' = touched \cup {Call(t, "read", path)}
           /\ IF ~file.ok
              THEN Finish(t, ApiError("Io", file.err)) /\ UNCHANGED loc
              ELSE IF ~Utf8Valid(file.val)
              THEN Finish(t, ApiError("Utf8", "InvalidUtf8")) /\ UNCHANGED loc
              ELSE IF Tail(loc[t].paths) = <<>>
              THEN Finish(t, Success(200, rendered)) /\ UNCHANGED loc
              ELSE /\ loc' = [loc EXCEPT ![t].paths = Tail(@),
                                         ![t].rendered = rendered]
                   /\ UNCHANGED <<pc, res>>
    /\ UNCHANGED <<dirs, data, meta, req, checks, san>>

\* what node_get answers over the store (ds, dt)
NodeGetResult(ds, dt, doc_raw, node_raw) ==
    LET np == NodePath(doc_raw, node_raw)
        file == FsRead(ds, dt, np.path)
    IN  IF ~np.ok THEN ApiError("Simple", np.err)
        ELSE IF ~file.ok THEN ApiError("Io", file.err)
        ELSE IF ~Utf8Valid(file.val) THEN ApiError("FromUtf8", "InvalidUtf8")
        ELSE Success(200, file.val)

\* GET /:document/:node
NodeGet(t) ==
    /\ pc[t] = "start" /\ req[t].op = "node_get"
    /\ LET np == NodePath(req[t].doc, req[t].node)
       IN  /\ touched' = IF np.ok THEN touched \cup {Call(t, "read", np.path)}
                         ELSE touched
           /\ Finish(t, NodeGetResult(dirs, data, req[t].doc, req[t].node))
    /\ UNCHANGED <<dirs, data, meta, req, loc, checks, san>>

\* PUT /:document/:node
NodeReplace(t) ==
    /\ pc[t] = "start" /\ req[t].op = "node_replace"
    /\ LET np == NodePath(req[t].doc, req[t].node)
           w == FsWrite(dirs, data, np.path, req[t].body)
       IN  IF ~np.ok
           THEN /\ Finish(t, ApiError("Simple", np.err))
                /\ UNCHANGED <<dirs, data, meta, touched>>
           ELSE /\ touched' = touched \cup {Call(t, "write", np.path)}
                /\ dirs' = w.dirs
                /\ data' = w.data
                /\ meta' = IF ~w.ok THEN meta
                           ELSE IF w.ino > Len(meta)
                           THEN Append(meta, Created(t, <<t>>))
                           ELSE [meta EXCEPT ![w.ino].writers = Append(@, t)]
                /\ IF w.ok THEN Finish(t, Success(205, <<>>))
                   ELSE Finish(t, ApiError("Io", w.err))
    /\ UNCHANGED <<req, loc, checks, san>>

\* DELETE /:document/:node
NodeDelete(t) ==
    /\ pc[t] = "start" /\ req[t].op = "node_delete"
    /\ LET np == NodePath(req[t].doc, req[t].node)
           w == FsRemove(dirs, data, np.path)
       IN  IF ~np.ok
           THEN /\ Finish(t, ApiError("Simple", np.err))
                /\ UNCHANGED <<dirs, data, touched>>
           ELSE /\ touched' = touched \cup {Call(t, "remove_file", np.path)}
                /\ dirs' = w.dirs
                /\ data' = w.data
                /\ IF w.ok THEN Finish(t, Success(205, <<>>))
                   ELSE Finish(t, ApiError("Io", w.err))
    /\ UNCHANGED <<meta, req, loc, checks, san>>

\* document_append(): the scan loop over the entries in listing order.
\* Entries that are not regular files, or whose stem is no u32, are skipped;
\* a value >= the candidate moves the candidate to value + 1.
RECURSIVE ScanEntries(_, _, _, _)
ScanEntries(order, dir, new_canidate, chk) ==
    IF order = <<>> THEN [panic |-> FALSE, val |-> new_canidate]
    ELSE LET value == ParseU32(StripHtml(Head(order)))
         IN  IF dir[Head(order)].kind # "file" \/ ~value.ok
                \/ ~U32Geq(value.val, new_canidate)
             THEN ScanEntries(Tail(order), dir, new_canidate, chk)
             ELSE LET next == U32Succ(value.val, chk)
                  IN  IF next.panic THEN next
                      ELSE ScanEntries(Tail(order), dir, next.val, chk)

\* POST /:document up to the choice of the new identity
DocumentAppend(t) ==
    /\ pc[t] = "start" /\ req[t].op = "document_append"
    /\ LET d == path_append_normal(library, req[t].doc)
           l == FsReadDir(dirs, d.path)
       IN  IF ~d.ok
           THEN /\ Finish(t, ApiError("Simple", d.err))
                /\ UNCHANGED <<loc, touched>>
           ELSE /\ touched' = touched \cup {Call(t, "read_dir", d.path)}
                /\ IF ~l.ok
                   THEN Finish(t, ApiError("Io", l.err)) /\ UNCHANGED loc
                   ELSE \E order \in Orderings(l.names) :
                          LET c == ScanEntries(order, dirs[Resolve(d.path).doc],
                                               U32Zero, checks)
                          IN  IF c.panic
                              THEN Finish(t, Panicked) /\ UNCHANGED loc
                              ELSE /\ loc' = [loc EXCEPT
                                                ![t].new_canidate = c.val,
                                                ![t].doc_path = d.path]
                                   /\ pc' = [pc EXCEPT ![t] = "create"]
                                   /\ UNCHANGED res
    /\ UNCHANGED <<dirs, data, meta, req, checks, san>>

\* the path of the node document_append creates
AppendPath(doc_path, new_canidate) ==
    path_append_normal(doc_path, WithHtml(FormatU32(new_canidate)))

\* document_append(): the exclusive create of "<id>.html"
AppendCreate(t) ==
    /\ pc[t] = "create"
    /\ LET np == AppendPath(loc[t].doc_path, loc[t].new_canidate)
           c == FsCreateNew(dirs, data, np.path)
       IN  IF ~np.ok
           THEN /\ Finish(t, ApiError("Simple", np.err))
                /\ UNCHANGED <<dirs, data, meta, loc, touched>>
           ELSE /\ touched' = touched \cup {Call(t, "create_new", np.path)}
                /\ dirs' = c.dirs
                /\ data' = c.data
                /\ meta' = IF c.ok THEN Append(meta, Created(t, <<>>)) ELSE meta
                /\ IF ~c.ok
                   THEN Finish(t, ApiError("Io", c.err)) /\ UNCHANGED loc
                   ELSE /\ loc' = [loc EXCEPT ![t].fd = c.ino]
                        /\ pc' = [pc EXCEPT ![t] = "write"]
                        /\ UNCHANGED res
    /\ UNCHANGED <<req, checks, san>>

\* document_append(): write_all and flush on the new file, then Ok
AppendWrite(t) ==
    /\ pc[t] = "write"
    /\ data' = FdWrite(data, loc[t].fd, req[t].body)
    /\ meta' = [meta EXCEPT ![loc[t].fd].writers = Append(@, t)]
    /\ Finish(t, Success(200, <<>>))
    /\ UNCHANGED <<dirs, req, loc, touched, checks, san>>

\* path_append_normal called on its own
Sanitize ==
    /\ ~san.done
    /\ LET r == path_append_normal(san.base, san.input)
       IN  san' = [san EXCEPT !.done = TRUE, !.ok = r.ok, !.path = r.path,
                              !.err = r.err]
    /\ UNCHANGED <<dirs, data, meta, req, pc, loc, res, touched, checks>>

\* ------------------------------------------------------------ startup
DocD == <<"d">>

DocE == <<"e">>

File(doc, name, content) ==
    [doc |-> doc, name |-> name, kind |-> "file", content |-> content]

SubDir(doc, name) == [doc |-> doc, name |-> name, kind |-> "dir", content |-> <<>>]

Num(s) == WithHtml(s)

MaxStem == <<"4", "2", "9", "4", "9", "6", "7", "2", "9", "5">>

\* Libraries the server may be started on: the entries of documents d and e
\* in the order they were made (document e always holds one node).
EInit == <<File(DocE, Num(<<"0">>), <<"e", "0">>)>>

StoreEmpty == EInit

StoreOne == <<File(DocD, Num(<<"0">>), <<"n", "0">>)>> \o EInit

StoreThree ==
    <<File(DocD, Num(<<"1">>), <<"n", "1">>),
      File(DocD, Num(<<"2">>), <<"n", "2">>),
      File(DocD, Num(<<"0">>), <<"n", "0">>)>> \o EInit

StoreGap ==
    <<File(DocD, Num(<<"0">>), <<"n", "0">>),
      File(DocD, Num(<<"1">>), <<"n", "1">>),
      File(DocD, Num(<<"5">>), <<"n", "5">>)>> \o EInit

StoreLex ==
    <<File(DocD, Num(<<"2">>), <<"n", "2">>),
      File(DocD, Num(<<"1", "0">>), <<"n", "1", "0">>)>> \o EInit

StoreMixed ==
    <<File(DocD, Num(<<"a">>), <<"n", "a">>),
      SubDir(DocD, Num(<<"0">>))>> \o EInit

StoreNamed ==
    <<File(DocD, <<"0">>, <<"r", "a", "w">>),
      File(DocD, Num(<<"+", "3">>), <<"n", "3">>),
      File(DocD, Num(<<"0", "7">>), <<"n", "7">>)>> \o EInit

StoreMax ==
    <<File(DocD, Num(MaxStem), <<"n", "m">>),
      File(DocD, Num(<<"5">>), <<"n", "5">>)>> \o EInit

StoreBinary == <<File(DocD, Num(<<"0">>), <<"n", InvalidByte>>)>> \o EInit

FilesBefore(store, i) == {j \in 1..i : store[j].kind = "file"}

StoreDirs(store) ==
    [d \in {DocD, DocE} |->
        LET idx == {i \in DOMAIN store : store[i].doc = d}
        IN  [n \in {store[i].name : i \in idx} |->
                LET i == CHOOSE i \in idx : store[i].name = n
                IN  [kind |-> store[i].kind,
                     ino |-> IF store[i].kind = "file"
                             THEN Cardinality(FilesBefore(store, i)) ELSE 0]]]

StoreData(store) ==
    LET files == SelectSeq(store, LAMBDA e : e.kind = "file")
    IN  [i \in DOMAIN files |-> files[i].content]

Bodies == {<<"A">>, <<"B", "C">>}

SanCall(base, input, done) ==
    [base |-> base, input |-> input, done |-> done, ok |-> FALSE, path |-> base,
     err |-> "none"]

NoSanCall == SanCall(library, <<>>, TRUE)

\* the state after AppState::new() on a library, with the requests in flight
Started(store, requests, chk, sn) ==
    /\ dirs = StoreDirs(store)
    /\ data = StoreData(store)
    /\ meta = [i \in DOMAIN StoreData(store) |-> Created(0, <<0>>)]
    /\ req = requests
    /\ pc = [t \in Tasks |-> IF requests[t] = NoRequest THEN "done" ELSE "start"]
    /\ loc = [t \in Tasks |-> NoLocals]
    /\ res = [t \in Tasks |-> NoResult]
    /\ touched = {}
    /\ checks = chk
    /\ san = sn

\* ---- concurrent requests on document d
ConcRequests ==
    {Request("document_append", DocD, <<>>, FALSE, <<>>, b) : b \in Bodies}
    \cup {Request("node_replace", DocD, <<"0">>, FALSE, <<>>, b) : b \in Bodies}
    \cup {Request("node_delete", DocD, <<"0">>, FALSE, <<>>, <<>>),
          Request("node_get", DocD, <<"0">>, FALSE, <<>>, <<>>),
          Request("document", DocD, <<>>, FALSE, <<>>, <<>>),
          Request("document", DocD, <<>>, TRUE, <<"0", ",", "1">>, <<>>)}

Init ==
    \E store \in {StoreEmpty, StoreOne}, requests \in [Tasks -> ConcRequests] :
        Started(store, requests, FALSE, NoSanCall)

Next ==
    \E t \in Tasks :
        \/ Document(t)
        \/ DocumentRead(t)
        \/ NodeGet(t)
        \/ NodeReplace(t)
        \/ NodeDelete(t)
        \/ DocumentAppend(t)
        \/ AppendCreate(t)
        \/ AppendWrite(t)

Spec == Init /\ [][Next]_vars

\* ---- concurrent appends only
AppendRequests ==
    {Request("document_append", DocD, <<>>, FALSE, <<>>, b) : b \in Bodies}

InitAppend ==
    \E store \in {StoreEmpty, StoreThree, StoreMixed, StoreMax},
       requests \in [Tasks -> AppendRequests \cup {NoRequest}],
       chk \in BOOLEAN :
        Started(store, requests, chk, NoSanCall)

NextAppend ==
    \E t \in Tasks :
        \/ DocumentAppend(t)
        \/ AppendCreate(t)
        \/ AppendWrite(t)

SpecAppend == InitAppend /\ [][NextAppend]_vars

\* ---- the sanitizer alone, on every short string
SanInputs == StrUpTo({"/", ".", "a"}, MaxLen)

InitSan ==
    \E base \in {library, Push(library, DocD)}, input \in SanInputs :
        Started(StoreEmpty, [t \in Tasks |-> NoRequest], FALSE,
                SanCall(base, input, FALSE))

SpecSan == InitSan /\ [][Sanitize]_vars

\* ---- one request at a time, over every short document and node string
SeqDocs == StrUpTo({"/", ".", "d"}, MaxLen)

SeqNodes == StrUpTo({"/", ".", "0"}, MaxLen)

ListNames ==
    {<<"0">>, <<"1">>, <<"2">>, <<"9">>, <<>>, <<"0", "/", "0">>, <<"/", "0">>}

NodeLists == UNION {[1..k -> ListNames] : k \in 1..MaxList}

\* the query string nodes=a,b,c of a list of names
RECURSIVE Join(_)
Join(list) ==
    IF Len(list) = 1 THEN list[1]
    ELSE list[1] \o <<",">> \o Join(Tail(list))

NodeOps == {"node_get", "node_replace", "node_delete"}

BodyOf(op, b) == IF op \in {"node_replace", "document_append"} THEN b ELSE <<>>

SeqRequests ==
    {Request(op, d, <<"0">>, FALSE, <<>>, BodyOf(op, b)) :
        op \in NodeOps, d \in SeqDocs, b \in Bodies}
    \cup {Request(op, DocD, n, FALSE, <<>>, BodyOf(op, b)) :
        op \in NodeOps, n \in SeqNodes, b \in Bodies}
    \cup {Request("document", d, <<>>, FALSE, <<>>, <<>>) : d \in SeqDocs}
    \cup {Request("document", d, <<>>, TRUE, <<"0">>, <<>>) : d \in SeqDocs}
    \cup {Request("document", DocD, <<>>, TRUE, n, <<>>) : n \in SeqNodes}
    \cup {Request("document", DocD, <<>>, TRUE, Join(l), <<>>) : l \in NodeLists}
    \cup {Request("document_append", d, <<>>, FALSE, <<>>, b) :
        d \in SeqDocs, b \in Bodies}

Stores ==
    {StoreEmpty, StoreOne, StoreThree, StoreGap, StoreLex, StoreMixed, StoreNamed,
     StoreMax, StoreBinary}

InitSeq ==
    \E store \in Stores, r \in SeqRequests, chk \in BOOLEAN :
        /\ chk => r.op = "document_append"
        /\ Started(store, [t \in Tasks |-> IF t = 1 THEN r ELSE NoRequest], chk,
                   NoSanCall)

SpecSeq == InitSeq /\ [][Next]_vars

\* ------------------------------------------------------------ properties
\* The text of s before its first separator.
FirstPiece(s) ==
    LET stops == {i \in DOMAIN s : s[i] = "/"} \cup {Len(s) + 1}
        k == CHOOSE i \in stops : \A j \in stops : i <= j
    IN  SubSeq(s, 1, k - 1)

\* s begins with a current-directory, parent-directory or root marker, or is
\* empty (Unix paths have no drive prefix)
StartsSpecial(s) ==
    s = <<>> \/ s[1] = "/" \/ FirstPiece(s) \in {<<".">>, <<".", ".">>}

\* p is the library root followed by exactly n names, none of them empty,
\* "." or ".."
BelowLibrary(p, n) ==
    /\ Len(p) > Len(library) + 1
    /\ SubSeq(p, 1, Len(library) + 1) = library \o <<"/">>
    /\ LET pieces == Split(SubSeq(p, Len(library) + 2, Len(p)), "/")
       IN  /\ Len(pieces) = n
           /\ \A i \in DOMAIN pieces : pieces[i] \notin {<<>>, <<".">>, <<".", ".">>}

\* C1: every path an operation lists is the library root followed by exactly
\* one name (a document directory), and every path it reads, creates, writes
\* or removes is the root followed by exactly two names (an entry of a
\* document); nothing touches the root, leaves it or goes deeper.
C1_PathsStayInLibrary ==
    \A c \in touched :
        IF c.call = "read_dir" THEN BelowLibrary(c.path, 1)
        ELSE BelowLibrary(c.path, 2)

\* a request whose document string hides further components reached the
\* filesystem, and one whose node string does
C1_Witness ==
    /\ \E c \in touched :
          /\ req[c.task].doc = <<"d", "/", ".", ".">>
          /\ c.call = "write"
    /\ pc[1] = "done"

C8_RejectsExtraComponents ==
    (san.done /\ Len(Components(san.input)) > 1) =>
        (~san.ok /\ san.err = "InvalidComponent")

\* C9: the file a node operation or an explicit node list acts on has a
\* name ending in ".html", and so does every file an append creates.
C9_ActsOnHtmlFiles ==
    \A c \in touched :
        (c.call # "read_dir"
            /\ (req[c.task].op \in NodeOps \cup {"document_append"}
                \/ (req[c.task].op = "document" /\ req[c.task].given)))
        => EndsWith(c.path, HtmlSuffix)

\* ---- natural numbers as decimal digit strings (no width)
RECURSIVE DecNorm(_)
DecNorm(d) == IF Len(d) > 1 /\ Head(d) = "0" THEN DecNorm(Tail(d)) ELSE d

RECURSIVE DecLeq(_, _)
DecLeq(a, b) ==
    IF Len(a) # Len(b) THEN Len(a) < Len(b)
    ELSE IF a = <<>> THEN TRUE
    ELSE IF Head(a) # Head(b) THEN DigitVal(Head(a)) < DigitVal(Head(b))
    ELSE DecLeq(Tail(a), Tail(b))

RECURSIVE DecSucc(_)
DecSucc(d) ==
    IF d = <<>> THEN <<"1">>
    ELSE LET front == SubSeq(d, 1, Len(d) - 1)
             last == d[Len(d)]
         IN  IF last = "9" THEN DecSucc(front) \o <<"0">>
             ELSE front \o <<Digits[DigitVal(last) + 2]>>

\* the digits of a stem that reads as a non-negative integer (a leading "+"
\* is allowed, as in Rust's integer syntax)
StemDigits(stem) == IF stem # <<>> /\ stem[1] = "+" THEN Tail(stem) ELSE stem

IsNumericStem(stem) ==
    /\ StemDigits(stem) # <<>>
    /\ \A i \in DOMAIN StemDigits(stem) : StemDigits(stem)[i] \in DigitChars

\* the values of the numeric stems of the regular files of a directory
StemValues(dir) ==
    {DecNorm(StemDigits(StripHtml(n))) :
        n \in {x \in DOMAIN dir : dir[x].kind = "file" /\ IsNumericStem(StripHtml(x))}}

\* 1 + the largest stem value, or 0 when there is none
NextIdentity(dir) ==
    IF StemValues(dir) = {} THEN <<"0">>
    ELSE DecSucc(CHOOSE m \in StemValues(dir) : \A v \in StemValues(dir) : DecLeq(v, m))

\* the document directory an append works in, once it has listed it
AppendDoc(t) == Resolve(loc[t].doc_path).doc

\* C5: after its scan an append holds the identity 1 + max of the integers
\* parsed from the stems of the regular files of the directory (0 when there
\* is none), whatever the listing order, and the scan always yields one.
C5_IdentityIsMaxPlusOne ==
    \A t \in Tasks :
        /\ res[t].kind # "Panic"
        /\ pc[t] = "create" =>
              FormatU32(loc[t].new_canidate) = NextIdentity(dirs[AppendDoc(t)])

\* C6: with no concurrent operation, the identity an append computed names
\* no existing entry "<id>.html", the append does not fail with "already
\* exists", and once it succeeded the node reads back as the appended body.
C6_IdentityIsFresh ==
    \A t \in Tasks :
        /\ pc[t] = "create" =>
              ~IsEntry(dirs, Resolve(AppendPath(loc[t].doc_path,
                                                loc[t].new_canidate).path))
        /\ res[t].msg # "AlreadyExists"
        /\ (req[t].op = "document_append" /\ res[t].kind = "Ok") =>
              FsRead(dirs, data, AppendPath(loc[t].doc_path,
                                            loc[t].new_canidate).path)
                  = Ok(req[t].body)

\* what readNode(d, n) returns in the current state
NodeContent(d, n) == FsRead(dirs, data, NodePath(d, n).path)

NodeReadable(d, n) ==
    NodePath(d, n).ok /\ NodeContent(d, n).ok /\ Utf8Valid(NodeContent(d, n).val)

RECURSIVE ConcatContents(_, _)
ConcatContents(d, list) ==
    IF list = <<>> THEN <<>>
    ELSE NodeContent(d, Head(list)).val \o ConcatContents(d, Tail(list))

\* the names of a comma-separated list: the text between one cut (the start,
\* a comma, the end) and the next
ListOf(raw) ==
    LET cuts == {0, Len(raw) + 1} \cup {i \in DOMAIN raw : raw[i] = ","}
        cut(k) == CHOOSE i \in cuts : Cardinality({j \in cuts : j < i}) = k
    IN  [k \in 1..(Cardinality(cuts) - 1) |->
            SubSeq(raw, cut(k - 1) + 1, cut(k) - 1)]

\* C10: a finished readDocument with the explicit list n1,..,nk returns the
\* contents of the nodes n1,..,nk in that order, repetitions included and
\* nothing in between, when each of them can be read, and otherwise fails
\* and returns no content.
C10_ListOrderConcat ==
    \A t \in Tasks :
        (pc[t] = "done" /\ req[t].op = "document" /\ req[t].given
            /\ req[t].doc = DocD)
        => LET list == ListOf(req[t].nodes)
           IN  IF \A i \in DOMAIN list : NodeReadable(DocD, list[i])
               THEN res[t].kind = "Ok" /\ res[t].out = ConcatContents(DocD, list)
               ELSE res[t].kind \in {"Simple", "Io", "Utf8"} /\ res[t].out = <<>>

\* nodes=2,0,1 over nodes made in the order 1, 2, 0
C10_Witness ==
    /\ req[1].op = "document" /\ req[1].nodes = <<"2", ",", "0", ",", "1">>
    /\ pc[1] = "done"
    /\ res[1].out = <<"n", "2", "n", "0", "n", "1">>
    /\ data = <<<<"n", "1">>, <<"n", "2">>, <<"n", "0">>, <<"e", "0">>>>

\* ---- concurrent requests
AppendTasks == {t \in Tasks : req[t].op = "document_append"}

AllDone == \A t \in Tasks : pc[t] = "done"

\* the entries of document d that some task made
MadeIn(d) == {n \in DOMAIN dirs[d] :
                 dirs[d][n].kind = "file" /\ meta[dirs[d][n].ino].creator # 0}

\* the places in the write order of file i taken by calls other than appends
OtherWrites(i) ==
    {k \in DOMAIN meta[i].writers : meta[i].writers[k] \notin AppendTasks \cup {0}}

\* C2: an append never replaces or alters what another call has written to a
\* node: a file that replaceNode calls wrote holds the body of the last of
\* them, whatever appends ran.
C2_AppendNeverOverwrites ==
    \A i \in DOMAIN meta :
        OtherWrites(i) # {} =>
            LET k == CHOOSE x \in OtherWrites(i) : \A y \in OtherWrites(i) : y <= x
            IN  data[i] = req[meta[i].writers[k]].body

\* C3: when exactly two appends ran on the empty document d and both chose
\* identity 0, one succeeded and the other failed with "already exists", and
\* d holds the single node 0.html with the body of the one that succeeded.
C3_TwoAppendsOneWinner ==
    \A a, b \in Tasks :
        (/\ a # b /\ AppendTasks = {a, b} /\ AllDone
         /\ DOMAIN dirs[DocD] = MadeIn(DocD)
         /\ loc[a].doc_path # <<>> /\ loc[b].doc_path # <<>>
         /\ loc[a].new_canidate = U32Zero /\ loc[b].new_canidate = U32Zero)
        => \E w \in {a, b} :
              LET l == CHOOSE x \in {a, b} : x # w
              IN  /\ res[w] = Success(200, <<>>)
                  /\ res[l] = ApiError("Io", "AlreadyExists")
                  /\ DOMAIN dirs[DocD] = {Num(<<"0">>)}
                  /\ NodeContent(DocD, <<"0">>) = Ok(req[w].body)

C3_Witness ==
    /\ AllDone /\ AppendTasks = {1, 2}
    /\ req[1].body # req[2].body
    /\ res[2] = Success(200, <<>>)
    /\ res[1] = ApiError("Io", "AlreadyExists")
    /\ loc[1].new_canidate = U32Zero /\ loc[2].new_canidate = U32Zero
    /\ DOMAIN dirs[DocD] = {Num(<<"0">>)}

\* the create_new calls task t has made
CreateCalls(t) == {c \in touched : c.task = t /\ c.call = "create_new"}

\* the appends that have their node (created it, and did not fail since)
Holders == {t \in AppendTasks : pc[t] = "write" \/ res[t].kind = "Ok"}

\* C4: with appends only, no two appends that succeeded hold the same
\* identity, each append tries to create at most one file, every node made
\* belongs to exactly one append that did not fail, the nodes added are as
\* many as those appends, and a finished node holds its append's body.
C4_AppendsOnly ==
    /\ \A a, b \in AppendTasks :
          (a # b /\ res[a].kind = "Ok" /\ res[b].kind = "Ok")
          => loc[a].new_canidate # loc[b].new_canidate
    /\ \A t \in Tasks : Cardinality(CreateCalls(t)) <= 1
    /\ \A n \in MadeIn(DocD) : meta[dirs[DocD][n].ino].creator \in Holders
    /\ Cardinality(MadeIn(DocD)) = Cardinality(Holders)
    /\ \A t \in AppendTasks :
          res[t].kind = "Ok" =>
              /\ NodeContent(DocD, FormatU32(loc[t].new_canidate)) = Ok(req[t].body)
              /\ meta[loc[t].fd].writers = <<t>>

C4_Witness ==
    /\ AllDone /\ AppendTasks = {1, 2}
    /\ res[1].kind = "Ok" /\ res[2].kind = "Ok"
    /\ loc[1].new_canidate = U32(0, 3) /\ loc[2].new_canidate = U32(0, 4)

\* ---- rendering a whole document
\* a comes before b in bytewise lexicographic order
NameBefore(a, b) ==
    \E k \in 1..(Len(a) + 1) :
        /\ k - 1 <= Len(b)
        /\ SubSeq(a, 1, k - 1) = SubSeq(b, 1, k - 1)
        /\ \/ k = Len(a) + 1 /\ Len(b) >= k
           \/ k <= Len(a) /\ k <= Len(b) /\ Ascii(a[k]) < Ascii(b[k])

\* the entry names of a directory in lexicographic order
SortedNames(dir) ==
    CHOOSE f \in Orderings(DOMAIN dir) :
        \A i, j \in DOMAIN f : i < j => NameBefore(f[i], f[j])

RECURSIVE ConcatFiles(_, _)
ConcatFiles(dir, names) ==
    IF names = <<>> THEN <<>>
    ELSE data[dir[Head(names)].ino] \o ConcatFiles(dir, Tail(names))

\* every entry of the directory is a regular file holding text
AllText(dir) ==
    \A n \in DOMAIN dir : dir[n].kind = "file" /\ Utf8Valid(data[dir[n].ino])

\* the document a request names: the first component of its document string
DocOf(r) == FirstPiece(r.doc)

NamesDoc(r) == ~StartsSpecial(r.doc) /\ DocOf(r) \in DOMAIN dirs

\* C11: a finished readDocument without a node list returns the contents of
\* all entries of the directory in lexicographic order of their names (10.html
\* before 2.html), when all of them are text files; otherwise it fails.
C11_ListingIsLexicographic ==
    \A t \in Tasks :
        (pc[t] = "done" /\ req[t].op = "document" /\ ~req[t].given
            /\ NamesDoc(req[t]))
        => LET dir == dirs[DocOf(req[t])]
           IN  IF AllText(dir)
               THEN res[t] = Success(200, ConcatFiles(dir, SortedNames(dir)))
               ELSE res[t].kind \in {"Io", "Utf8"} /\ res[t].out = <<>>

\* {2.html, 10.html}, 10.html made last: its content is rendered first
C11_Witness ==
    /\ pc[1] = "done" /\ req[1].op = "document" /\ ~req[1].given
    /\ DOMAIN dirs[DocD] = {Num(<<"1", "0">>), Num(<<"2">>)}
    /\ dirs[DocD][Num(<<"2">>)].ino < dirs[DocD][Num(<<"1", "0">>)].ino
    /\ res[1].out = <<"n", "1", "0", "n", "2">>

\* ---- deleting a node
\* the step in which task t's handler runs from start to its return
Returns(t, op) == req[t].op = op /\ pc[t] = "start" /\ pc'[t] = "done"

IsNode(d, name) == name \in DOMAIN dirs[d] /\ dirs[d][name].kind = "file"

\* C12: deleteNode(d, n) on a missing node fails and changes nothing; on an
\* existing node it removes exactly the entry "<n>.html" of d and leaves all
\* other entries, all contents and the set of documents as they were.
C12_DeleteExactlyOne ==
    [][\A t \in Tasks :
          (Returns(t, "node_delete") /\ req[t].doc \in DOMAIN dirs)
          => LET d == req[t].doc
                 name == WithHtml(req[t].node)
             IN  IF IsNode(d, name)
                 THEN /\ res'[t] = Success(205, <<>>)
                      /\ dirs' = [dirs EXCEPT ![d] = WithoutEntry(@, name)]
                      /\ data' = data
                 ELSE /\ res'[t].kind # "Ok"
                      /\ dirs' = dirs /\ data' = data]_vars

\* ---- replacing a node
\* entry (d, n) is the same in the next state: same kind, same content
EntryKept(d, n) ==
    /\ d \in DOMAIN dirs' /\ n \in DOMAIN dirs'[d]
    /\ dirs'[d][n].kind = dirs[d][n].kind
    /\ dirs[d][n].kind = "file" => data'[dirs'[d][n].ino] = data[dirs[d][n].ino]

NoSeparator(s) == \A i \in DOMAIN s : s[i] # "/"

\* C13: after a successful replaceNode(d, n, body), readNode(d, n) over the
\* resulting store returns exactly body, whether or not the node existed
\* before; no entry other than the one addressed is changed, added or removed,
\* and for a name of one component that entry is "<n>.html" of d.
C13_ReplaceThenRead ==
    [][\A t \in Tasks :
          (Returns(t, "node_replace") /\ res'[t].kind = "Ok")
          => LET r == Resolve(NodePath(req[t].doc, req[t].node).path)
             IN  /\ NodeGetResult(dirs', data', req[t].doc, req[t].node)
                        = Success(200, req[t].body)
                 /\ DOMAIN dirs' = DOMAIN dirs
                 /\ \A d \in DOMAIN dirs :
                        /\ DOMAIN dirs'[d] \subseteq
                               DOMAIN dirs[d] \cup (IF d = r.doc THEN {r.name} ELSE {})
                        /\ \A n \in DOMAIN dirs[d] :
                               (d # r.doc \/ n # r.name) => EntryKept(d, n)
                 /\ (NoSeparator(req[t].doc) /\ NoSeparator(req[t].node))
                        => r.doc = req[t].doc /\ r.name = WithHtml(req[t].node)]_vars

\* a replace that made node 0 of d, which did not exist before
C13_Witness ==
    /\ pc[1] = "done" /\ req[1].op = "node_replace" /\ res[1].kind = "Ok"
    /\ req[1].doc = DocD /\ req[1].node = <<"0">>
    /\ meta[dirs[DocD][Num(<<"0">>)].ino].creator = 1
    /\ data[dirs[DocD][Num(<<"0">>)].ino] = req[1].body

\* ---- who creates nodes
\* the tasks whose request is op
TasksOf(op) == {t \in Tasks : req[t].op = op}

Segments(r) ==
    {r.doc}
    \cup (IF r.op \in NodeOps THEN {WithHtml(r.node)} ELSE {})
    \cup (IF r.op = "document" /\ r.given
          THEN {WithHtml(ListOf(r.nodes)[i]) : i \in DOMAIN ListOf(r.nodes)}
          ELSE {})

\* some segment of the request is one the sanitizer rejects
HasBadSegment(r) == \E s \in Segments(r) : StartsSpecial(s)

CallsOf(t) == {c \in touched : c.task = t}

StoreAsStarted ==
    \E store \in Stores : dirs = StoreDirs(store) /\ data = StoreData(store)

\* C15: a request with a segment the sanitizer rejects makes no filesystem
\* call at any point, whichever segment it is (the document, the node, any
\* name of the node list); it ends with a validation failure and the store as
\* it was. A request without such a segment never ends with a validation
\* failure, so a validation failure and an I/O failure differ in kind.
C15_ValidationBeforeAccess ==
    \A t \in Tasks :
        req[t].op # "none" =>
            IF HasBadSegment(req[t])
            THEN /\ CallsOf(t) = {}
                 /\ StoreAsStarted
                 /\ pc[t] \in {"start", "done"}
                 /\ pc[t] = "done" =>
                        /\ res[t].kind = "Simple" /\ res[t].out = <<>>
                        /\ res[t].msg \in {"InvalidComponent", "UnknownError"}
            ELSE pc[t] = "done" => res[t].kind # "Simple"

\* the second name of the list is rejected: the first, which exists, was not read
C15_Witness ==
    /\ pc[1] = "done" /\ req[1].op = "document"
    /\ req[1].nodes = <<"0", ",", "/", "0">>
    /\ IsNode(DocD, Num(<<"0">>))
    /\ res[1].kind = "Simple" /\ CallsOf(1) = {}

\* ---- documents are neither made nor removed
\* C16: the set of document directories is always the one the store started
\* with, and every operation addressed to a document that has no directory
\* leaves the store as it was and ends with the I/O failure not-found.
C16_DocumentsFixed ==
    /\ DOMAIN dirs = {DocD, DocE}
    /\ \A t \in Tasks :
          (req[t].op # "none" /\ ~HasBadSegment(req[t])
               /\ DocOf(req[t]) \notin DOMAIN dirs)
          => /\ StoreAsStarted
             /\ pc[t] = "done" => res[t] = ApiError("Io", "NotFound")

\* a replaceNode addressed to the missing document dd has ended not-found
C16_Witness ==
    /\ pc[1] = "done" /\ req[1].doc = <<"d", "d">>
    /\ req[1].op = "node_replace"
    /\ res[1] = ApiError("Io", "NotFound")
    /\ DOMAIN dirs = {DocD, DocE}

\* ---- the HTTP boundary
\* the ApiError variants a handler can return
FailureKinds == {"Simple", "Io", "Utf8", "FromUtf8"}

SuccessStatus(op) == IF op \in {"node_replace", "node_delete"} THEN 205 ELSE 200

\* the effect a finished operation of task t must have had on the store
Completed(t) ==
    LET r == Resolve(NodePath(req[t].doc, req[t].node).path)
    IN  CASE req[t].op = "node_replace" ->
                 IsEntry(dirs, r) /\ data[dirs[r.doc][r.name].ino] = req[t].body
          [] req[t].op = "node_delete" -> ~IsEntry(dirs, r)
          [] req[t].op = "document_append" ->
                 \E n \in DOMAIN dirs[DocOf(req[t])] :
                     LET e == dirs[DocOf(req[t])][n]
                     IN  /\ e.kind = "file" /\ meta[e.ino].creator = t
                         /\ data[e.ino] = req[t].body
          [] OTHER -> StoreAsStarted

\* C17: a handler that returns a failure of any kind (validation, I/O, either
\* encoding error) answers 500 with a message and no content; one that
\* returns success answers 200 (GET, POST) or 205 (PUT, DELETE); and a 200 or
\* 205 is answered only by an operation that returned success and had its
\* effect on the store.
C17_StatusCodes ==
    \A t \in Tasks :
        pc[t] = "done" =>
            /\ res[t].kind \in FailureKinds =>
                   res[t].status = 500 /\ res[t].msg # "none" /\ res[t].out = <<>>
            /\ res[t].kind = "Ok" => res[t].status = SuccessStatus(req[t].op)
            /\ res[t].status # 500 => res[t].kind \notin FailureKinds
            /\ res[t].status \in {200, 205} => res[t].kind = "Ok" /\ Completed(t)

\* a validation failure answered with 500
C17_Witness ==
    /\ pc[1] = "done" /\ req[1].op = "node_delete" /\ req[1].doc = <<".", ".">>
    /\ res[1].kind = "Simple" /\ res[1].status = 500
    /\ res[1].msg = "InvalidComponent"

\* ---- reading while a node is being made
\* C18: a readNode that ran concurrently with an appendNode and returned the
\* node that append created returned exactly the append's body, never an
\* empty or partial content.
C18_NeverHalfMade ==
    \A a \in TasksOf("document_append") : \A g \in TasksOf("node_get") :
        LET r == Resolve(NodePath(req[g].doc, req[g].node).path)
        IN  (/\ pc[g] = "done" /\ res[g].kind = "Ok"
             /\ IsEntry(dirs, r)
             /\ meta[dirs[r.doc][r.name].ino].creator = a)
            => res[g].out = req[a].body

\* ---- identities over the whole u32 range
\* C19: the identity an append holds after its scan is strictly greater than
\* the value of every numeric stem among the regular files of the directory,
\* also when one of them is 4294967295: the increment does not wrap.
C19_IdentityAboveEveryStem ==
    \A t \in Tasks :
        pc[t] = "create" =>
            \A v \in StemValues(dirs[AppendDoc(t)]) :
                /\ DecLeq(v, FormatU32(loc[t].new_canidate))
                /\ v # FormatU32(loc[t].new_canidate)

====
